---- MODULE Spec2Model ----
(***************************************************************************)
(* Model of src/tarea2.py, module 1: BranchManager, the N-ary tree of      *)
(* branches with commit logs, checkout cursor, merge and persistence.      *)
(*                                                                         *)
(* Python objects live in a heap: heap[i] is the BranchNode with identity  *)
(* i; a reference is an index into the heap and 0 stands for None.  A node *)
(* detached by delete_branch stays in the heap (Python keeps the object    *)
(* alive while self.current still refers to it).  A dict is the sequence   *)
(* of its <<key, value>> pairs in insertion order, which is what str() and *)
(* json.dump() see.                                                        *)
(*                                                                         *)
(* Module 4, RoleManager, is the AVL tree of roles keyed by email.  Its    *)
(* nodes are referred to from one place only, so a reference to an AVLNode *)
(* is modelled by the node itself: None is <<>> and a node is <<record>>.  *)
(* A call that raises leaves behind the assignments it made before the     *)
(* raise; the model carries that state along with the exception.           *)
(***************************************************************************)
EXTENDS Integers, Sequences, FiniteSets, TLC

VARIABLES heap, root, current, store, last, roles, roles_file

vars == <<heap, root, current, store, last, roles, roles_file>>

\* ---------------------------------------------------------------- bounds
\* Most BranchNode objects allocated in one process.
MaxNodes == 3
\* Most commits held by all branches together for a merge to still run.
MaxCommits == 3

\* Most nodes of a tree read from branches.json when the traversals are checked.
MaxTreeNodes == 4
\* Most nodes of the role tree for add_role to still run.
MaxRoles == 4

\* Branch names the commands are called with; no branch is ever named "b".
Names == {"main", "a", "b"}
\* Branch names create_branch is called with.
NewNames == {"main", "a"}

\* Python's None as a dict value (dict.get of a missing key).
NoneVal == "<None>"

\* ------------------------------------------------------ dicts (file tables)
Keys(d) == {d[i][1] : i \in 1..Len(d)}

\* dict.get(k): the value stored under k, None when k is missing.
Get(d, k) ==
  IF k \in Keys(d) THEN d[CHOOSE i \in 1..Len(d) : d[i][1] = k][2] ELSE NoneVal

\* Python's == on dicts: same keys, same values, whatever the order.
DictEq(d, e) == Keys(d) = Keys(e) /\ \A k \in Keys(d) : Get(d, k) = Get(e, k)

\* d[k] = v: replaces in place when k is present, appends otherwise.
SetItem(d, k, v) ==
  IF k \in Keys(d)
  THEN [i \in 1..Len(d) |-> IF d[i][1] = k THEN <<k, v>> ELSE d[i]]
  ELSE Append(d, <<k, v>>)

\* d.update(e): e's items assigned into d in e's order.
RECURSIVE Update(_, _)
Update(d, e) == IF e = <<>> THEN d ELSE Update(SetItem(d, e[1][1], e[1][2]), Tail(e))

\* Truthiness taken for "is not None": "" counts as a value.
Truthy_is_not_none(v) == v # NoneVal

\* Python truthiness of a file content: None and "" are falsy.
Truthy(v) == v # NoneVal /\ v # ""

\* a and b, in place of a or b.
Or_written_as_and(a, b) == IF Truthy(a) THEN b ELSE a

\* a or b
Or(a, b) == IF Truthy(a) THEN a ELSE b

\* Every order in which a set can be iterated.
Perms(S) == {p \in [1..Cardinality(S) -> S] : \A i, j \in 1..Cardinality(S) : p[i] = p[j] => i = j}

\* str(dict): the items rendered in insertion order.
RECURSIVE StrItems(_)
StrItems(d) == IF d = <<>> THEN <<>> ELSE <<d[1][1], ":", d[1][2]>> \o StrItems(Tail(d))
Str(d) == <<"{">> \o StrItems(d) \o <<"}">>

\* hashlib.sha1(s.encode()).hexdigest()[:7], kept symbolic: equal strings
\* give equal ids and, within the model's bounds, different strings differ.
Sha1_7(s) == <<"sha1">> \o s

\* ------------------------------------------------------------- Commit
Commit(id, message, files) == [id |-> id, message |-> message, files |-> files]

\* Commit.to_dict: the dict with the commit's id, message and files.
to_dict(c) == [id |-> c.id, message |-> c.message, files |-> c.files]

\* Commit(**c): the commit built from the keys of a stored dict.
CommitFromDict(c) == Commit(c.id, c.message, c.files)

\* ------------------------------------------------------------- BranchNode
BranchNode(name, parent) ==
  [name |-> name, parent |-> parent, children |-> <<>>, commits |-> <<>>]

\* The files of a branch's latest commit, {} when it has none.
LatestFiles(node) ==
  IF node.commits # <<>> THEN node.commits[Len(node.commits)].files ELSE <<>>

\* ------------------------------------------------------------- traversals
\* _find_branch_postorder: every child subtree in list order first, the node
\* itself last; 0 is None.
RECURSIVE _find_branch_postorder(_, _, _), FindInChildren(_, _, _, _)
\* The search with the node tested before its children.
_find_branch_self_first(h, node, name) ==
  IF h[node].name = name THEN node
  ELSE FindInChildren(h, h[node].children, 1, name)

_find_branch_postorder(h, node, name) ==
  LET result == FindInChildren(h, h[node].children, 1, name)
  IN  IF result # 0 THEN result
      ELSE IF h[node].name = name THEN node ELSE 0

\* The for loop of _find_branch_postorder from child i on.
FindInChildren(h, children, i, name) ==
  IF i > Len(children) THEN 0
  ELSE LET result == _find_branch_postorder(h, children[i], name)
       IN  IF result # 0 THEN result ELSE FindInChildren(h, children, i + 1, name)

\* _checkout_inorder: the node, then every child but the last, then the last
\* child.  Returns the node self.current is set to, 0 when it returns False.
RECURSIVE _checkout_inorder(_, _, _), CheckoutInChildren(_, _, _, _)
\* The search with the last child explored before the other children.
_checkout_last_child_first(h, node, name) ==
  IF h[node].name = name THEN node
  ELSE LET children == h[node].children
           found == IF children # <<>>
                    THEN _checkout_inorder(h, children[Len(children)], name)
                    ELSE 0
       IN  IF found # 0 THEN found
           ELSE CheckoutInChildren(h, children, 1, name)

_checkout_inorder(h, node, name) ==
  IF h[node].name = name THEN node
  ELSE LET children == h[node].children
           found == CheckoutInChildren(h, children, 1, name)
       IN  IF found # 0 THEN found
           ELSE IF children # <<>>
                THEN _checkout_inorder(h, children[Len(children)], name)
                ELSE 0

\* The enumerate loop of _checkout_inorder from child i on (i < len - 1 in
\* 0-based terms: the last child is skipped).
CheckoutInChildren(h, children, i, name) ==
  IF i > Len(children) - 1 THEN 0
  ELSE LET found == _checkout_inorder(h, children[i], name)
       IN  IF found # 0 THEN found ELSE CheckoutInChildren(h, children, i + 1, name)

\* The nodes of the tree hanging from node n (n and its descendants).
RECURSIVE Subtree(_, _)
Subtree(h, n) ==
  {n} \cup UNION {Subtree(h, h[n].children[i]) : i \in 1..Len(h[n].children)}

\* ------------------------------------------------------------- persistence
\* _serialize: the nested document of a node; commits via Commit.to_dict.
RECURSIVE _serialize(_, _)
_serialize(h, node) ==
  [name     |-> h[node].name,
   commits  |-> [i \in 1..Len(h[node].commits) |-> to_dict(h[node].commits[i])],
   children |-> [i \in 1..Len(h[node].children) |-> _serialize(h, h[node].children[i])]]

\* _deserialize: BranchNode(data["name"]) is built with parent None, and no
\* later statement sets the parent of a rebuilt child.
RECURSIVE _deserialize(_, _), DeserializeChildren(_, _, _, _)
\* _deserialize that rebuilds the children in reverse order.
_deserialize_reversed(h, data) ==
  LET n  == Len(h) + 1
      nd == [BranchNode(data.name, 0) EXCEPT
               !.commits = [i \in 1..Len(data.commits) |-> CommitFromDict(data.commits[i])]]
      docs == [i \in 1..Len(data.children) |-> data.children[Len(data.children) + 1 - i]]
      r  == DeserializeChildren(Append(h, nd), docs, 1, <<>>)
  IN  [h |-> [r.h EXCEPT ![n].children = r.ids], id |-> n]

_deserialize(h, data) ==
  LET n  == Len(h) + 1
      nd == [BranchNode(data.name, 0) EXCEPT
               !.commits = [i \in 1..Len(data.commits) |-> CommitFromDict(data.commits[i])]]
      r  == DeserializeChildren(Append(h, nd), data.children, 1, <<>>)
  IN  [h |-> [r.h EXCEPT ![n].children = r.ids], id |-> n]

\* The list comprehension over data["children"] from child i on.
DeserializeChildren(h, docs, i, ids) ==
  IF i > Len(docs) THEN [h |-> h, ids |-> ids]
  ELSE LET r == _deserialize(h, docs[i])
       IN  DeserializeChildren(r.h, docs, i + 1, Append(ids, r.id))

\* save(): the file holds the serialisation of the tree under self.root.
\* The store is <<>> while branches.json does not exist, <<document>> after.
save(h, r) == <<_serialize(h, r)>>

\* ------------------------------------------------------------- diff / merge
\* _calculate_diff over the latest file tables of source and target; order
\* is the order in which set(source_files) | set(target_files) is iterated.
RECURSIVE DiffLoop(_, _, _, _)
DiffLoop(source_files, target_files, order, diff) ==
  IF order = <<>> THEN diff
  ELSE LET file == Head(order)
           d == IF Get(source_files, file) # Get(target_files, file)
                THEN SetItem(diff, file, Or(Get(source_files, file), Get(target_files, file)))
                ELSE diff
       IN  DiffLoop(source_files, target_files, Tail(order), d)

_calculate_diff(source, target, order) ==
  DiffLoop(LatestFiles(source), LatestFiles(target), order, <<>>)

\* _apply_merge: the commit log of current after the "Merge commit" commit
\* built from copy(latest files).update(diff) is appended.
\* _apply_merge that assigns a new log instead of appending to the old one.
_apply_merge_new_log(node, diff) ==
  LET current_files == Update(LatestFiles(node), diff)
      new_commit == Commit(Sha1_7(Str(current_files)), <<"Merge commit">>, current_files)
  IN  <<new_commit>>

_apply_merge(node, diff) ==
  LET current_files == Update(LatestFiles(node), diff)
      new_commit == Commit(Sha1_7(Str(current_files)), <<"Merge commit">>, current_files)
  IN  Append(node.commits, new_commit)

\* The commit log of current when merge returns: _apply_merge's commit, then
\* merge's own merge_commit with files = diff.
MergedLog(node, source_name, diff) ==
  LET merge_commit == Commit(Sha1_7(Str(diff)),
                             <<"Merge", source_name, "into", node.name>>, diff)
  IN  Append(_apply_merge(node, diff), merge_commit)

\* ------------------------------------------------------------- BranchManager
\* The number of Commit objects held by the nodes of heap h.
RECURSIVE TotalCommits(_)
TotalCommits(h) ==
  IF h = <<>> THEN 0 ELSE Len(h[1].commits) + TotalCommits(Tail(h))

\* What the last call was, how it ended (the value returned or the exception
\* raised) and whether it called save().
Outcome(op, arg, result, saved) ==
  [op |-> op, arg |-> arg, result |-> result, saved |-> saved]

\* The names of the direct children of node n.
ChildNames(h, n) == {h[h[n].children[i]].name : i \in 1..Len(h[n].children)}

\* list.remove(x): the list without its first element equal to x.
Remove(list, x) ==
  LET k == CHOOSE i \in 1..Len(list) : list[i] = x /\ \A j \in 1..(i - 1) : list[j] # x
  IN  SubSeq(list, 1, k - 1) \o SubSeq(list, k + 1, Len(list))

\* load(): the tree is rebuilt from the file and current is the new root;
\* FileNotFoundError leaves the single "main" node of __init__.
load(file) ==
  IF file = <<>>
  THEN [h |-> <<BranchNode("main", 0)>>, id |-> 1]
  ELSE _deserialize(<<>>, file[1])

\* __init__ of a new process: root "main", then load() of branches.json.
BranchManager_init ==
  LET r == load(store)
  IN  /\ heap' = r.h
      /\ root' = r.id
      /\ current' = r.id
      /\ UNCHANGED store
      /\ last' = Outcome("__init__", "", "None", FALSE)

\* create_branch with the duplicate test made against every branch of the tree.
create_branch_any_branch(name) ==
  IF name \in {heap[n].name : n \in Subtree(heap, root)}
  THEN /\ last' = Outcome("create_branch", name, "ValueError", FALSE)
       /\ UNCHANGED <<heap, root, current, store>>
  ELSE /\ Len(heap) < MaxNodes
       /\ LET new_branch == Len(heap) + 1
          IN  heap' = Append([heap EXCEPT ![current].children = Append(@, new_branch)],
                             BranchNode(name, current))
       /\ store' = save(heap', root)
       /\ UNCHANGED <<root, current>>
       /\ last' = Outcome("create_branch", name, "None", TRUE)

\* create_branch without the duplicate test.
create_branch_unchecked(name) ==
  /\ Len(heap) < MaxNodes
  /\ LET new_branch == Len(heap) + 1
     IN  heap' = Append([heap EXCEPT ![current].children = Append(@, new_branch)],
                        BranchNode(name, current))
  /\ store' = save(heap', root)
  /\ UNCHANGED <<root, current>>
  /\ last' = Outcome("create_branch", name, "None", TRUE)

create_branch(name) ==
  IF name \in ChildNames(heap, current)
  THEN /\ last' = Outcome("create_branch", name, "ValueError", FALSE)
       /\ UNCHANGED <<heap, root, current, store>>
  ELSE /\ Len(heap) < MaxNodes
       /\ LET new_branch == Len(heap) + 1
          IN  heap' = Append([heap EXCEPT ![current].children = Append(@, new_branch)],
                             BranchNode(name, current))
       /\ store' = save(heap', root)
       /\ UNCHANGED <<root, current>>
       /\ last' = Outcome("create_branch", name, "None", TRUE)

\* delete_branch that drops the tree when the match has no parent.
delete_branch_drops_root(name) ==
  LET branch == _find_branch_postorder(heap, root, name)
  IN  IF branch # 0 /\ heap[branch].children = <<>>
      THEN IF heap[branch].parent = 0
           THEN /\ root' = 0
                /\ UNCHANGED <<heap, current, store>>
                /\ last' = Outcome("delete_branch", name, "None", FALSE)
           ELSE LET parent == heap[branch].parent
                IN  /\ heap' = [heap EXCEPT ![parent].children = Remove(@, branch)]
                    /\ store' = save(heap', root)
                    /\ UNCHANGED <<root, current>>
                    /\ last' = Outcome("delete_branch", name, "None", TRUE)
      ELSE /\ last' = Outcome("delete_branch", name, "None", FALSE)
           /\ UNCHANGED <<heap, root, current, store>>

\* delete_branch without the test for children.
delete_branch_with_children(name) ==
  LET branch == _find_branch_postorder(heap, root, name)
  IN  IF branch # 0
      THEN IF heap[branch].parent = 0
           THEN /\ last' = Outcome("delete_branch", name, "AttributeError", FALSE)
                /\ UNCHANGED <<heap, root, current, store>>
           ELSE LET parent == heap[branch].parent
                IN  /\ heap' = [heap EXCEPT ![parent].children = Remove(@, branch)]
                    /\ store' = save(heap', root)
                    /\ UNCHANGED <<root, current>>
                    /\ last' = Outcome("delete_branch", name, "None", TRUE)
      ELSE /\ last' = Outcome("delete_branch", name, "None", FALSE)
           /\ UNCHANGED <<heap, root, current, store>>

delete_branch(name) ==
  LET branch == _find_branch_postorder(heap, root, name)
  IN  IF branch # 0 /\ heap[branch].children = <<>>
      THEN IF heap[branch].parent = 0
           THEN \* branch.parent is None: None has no attribute children
                /\ last' = Outcome("delete_branch", name, "AttributeError", FALSE)
                /\ UNCHANGED <<heap, root, current, store>>
           ELSE LET parent == heap[branch].parent
                IN  /\ heap' = [heap EXCEPT ![parent].children = Remove(@, branch)]
                    /\ store' = save(heap', root)
                    /\ UNCHANGED <<root, current>>
                    /\ last' = Outcome("delete_branch", name, "None", TRUE)
      ELSE /\ last' = Outcome("delete_branch", name, "None", FALSE)
           /\ UNCHANGED <<heap, root, current, store>>

\* checkout that saves whether or not the branch was found.
checkout_always_saves(name) ==
  LET found == _checkout_inorder(heap, root, name)
  IN  /\ current' = IF found # 0 THEN found ELSE current
      /\ store' = save(heap, root)
      /\ UNCHANGED <<heap, root>>
      /\ last' = Outcome("checkout", name, IF found # 0 THEN "True" ELSE "False", TRUE)

checkout(name) ==
  LET found == _checkout_inorder(heap, root, name)
  IN  IF found # 0
      THEN /\ current' = found
           /\ store' = save(heap, root)
           /\ UNCHANGED <<heap, root>>
           /\ last' = Outcome("checkout", name, "True", TRUE)
      ELSE /\ last' = Outcome("checkout", name, "False", FALSE)
           /\ UNCHANGED <<heap, root, current, store>>

\* merge that takes a missing source for a branch without commits.
merge_missing_source_empty(source_name) ==
  LET source == _find_branch_postorder(heap, root, source_name)
      src == IF source = 0 THEN BranchNode(source_name, 0) ELSE heap[source]
  IN  /\ TotalCommits(heap) < MaxCommits
      /\ \E order \in Perms(Keys(LatestFiles(src)) \cup Keys(LatestFiles(heap[current]))) :
           LET diff == _calculate_diff(src, heap[current], order)
           IN  heap' = [heap EXCEPT ![current].commits =
                           MergedLog(heap[current], source_name, diff)]
      /\ store' = save(heap', root)
      /\ UNCHANGED <<root, current>>
      /\ last' = Outcome("merge", source_name, "None", TRUE)

\* merge that appends its merge_commit to the source branch.
merge_commit_on_source(source_name) ==
  LET source == _find_branch_postorder(heap, root, source_name)
  IN  IF source = 0
      THEN /\ last' = Outcome("merge", source_name, "ValueError", FALSE)
           /\ UNCHANGED <<heap, root, current, store>>
      ELSE /\ TotalCommits(heap) < MaxCommits
           /\ \E order \in Perms(Keys(LatestFiles(heap[source]))
                                 \cup Keys(LatestFiles(heap[current]))) :
                LET diff == _calculate_diff(heap[source], heap[current], order)
                    log  == MergedLog(heap[current], source_name, diff)
                    h1   == [heap EXCEPT ![current].commits = SubSeq(log, 1, Len(log) - 1)]
                IN  heap' = [h1 EXCEPT ![source].commits = Append(@, log[Len(log)])]
           /\ store' = save(heap', root)
           /\ UNCHANGED <<root, current>>
           /\ last' = Outcome("merge", source_name, "None", TRUE)

merge(source_name) ==
  LET source == _find_branch_postorder(heap, root, source_name)
  IN  IF source = 0
      THEN /\ last' = Outcome("merge", source_name, "ValueError", FALSE)
           /\ UNCHANGED <<heap, root, current, store>>
      ELSE /\ TotalCommits(heap) < MaxCommits
           /\ \E order \in Perms(Keys(LatestFiles(heap[source]))
                                 \cup Keys(LatestFiles(heap[current]))) :
                LET diff == _calculate_diff(heap[source], heap[current], order)
                IN  heap' = [heap EXCEPT ![current].commits =
                                MergedLog(heap[current], source_name, diff)]
           /\ store' = save(heap', root)
           /\ UNCHANGED <<root, current>>
           /\ last' = Outcome("merge", source_name, "None", TRUE)

\* list_branches_preorder: prints the names, changes nothing, returns None.
list_branches_preorder ==
  /\ last' = Outcome("list_branches_preorder", "", "None", FALSE)
  /\ UNCHANGED <<heap, root, current, store>>

\* get_current_branch: returns self.current.name.
get_current_branch ==
  /\ last' = Outcome("get_current_branch", "", heap[current].name, FALSE)
  /\ UNCHANGED <<heap, root, current, store>>

\* ------------------------------------------------------------- role store
\* The variables of the RoleManager, which no BranchManager method touches.
role_vars == <<roles, roles_file>>

\* A RoleManager constructed without a roles.json: no tree, no file.
NoRoles == roles = <<>> /\ roles_file = <<>>

\* ------------------------------------------------------------- initial states
\* File tables found in a branches.json written before the process starts.
TableA == << <<"f", "1">>, <<"g", "1">> >>
TableB == << <<"f", "2">>, <<"g", "1">> >>
TableC == << <<"f", "">> >>

\* The commit log holding one commit with file table t, none when t is empty.
SeedLog(t) ==
  IF t = <<>> THEN <<>> ELSE <<Commit(Sha1_7(Str(t)), <<"Merge commit">>, t)>>

\* The latest file tables of main and of its child "a" in those files.
SeedTables ==
  { <<TableA, TableB>>, <<TableA, TableA>>, <<TableA, TableC>>,
    <<TableC, TableA>>, <<<<>>, TableA>> }

\* The documents branches.json may hold at start: main with one child "a",
\* each with no commit or one.
SeedDocs ==
  {_serialize(<<[BranchNode("main", 0) EXCEPT !.commits = SeedLog(t[1]), !.children = <<2>>],
                [BranchNode("a", 1) EXCEPT !.commits = SeedLog(t[2])]>>, 1) :
     t \in SeedTables}

Init ==
  /\ store \in {<<>>} \cup {<<d>> : d \in SeedDocs}
  /\ heap = load(store).h
  /\ root = load(store).id
  /\ current = load(store).id
  /\ last = Outcome("__init__", "", "None", FALSE)
  /\ NoRoles

Next ==
  \/ BranchManager_init /\ UNCHANGED role_vars
  \/ \E name \in NewNames : create_branch(name) /\ UNCHANGED role_vars
  \/ \E name \in Names : delete_branch(name) /\ UNCHANGED role_vars
  \/ \E name \in Names : checkout(name) /\ UNCHANGED role_vars
  \/ \E name \in Names : merge(name) /\ UNCHANGED role_vars
  \/ list_branches_preorder /\ UNCHANGED role_vars
  \/ get_current_branch /\ UNCHANGED role_vars

Spec == Init /\ [][Next]_vars

\* ------------------------------------------------------------- GitSystem
\* The command lines typed at the prompt, as command.split() leaves them.
Commands ==
  {<<"git", "branch", n>> : n \in NewNames}
    \cup {<<"git", "branch", "-d", n>> : n \in Names}
    \cup {<<"git", "checkout", n>> : n \in Names}
    \cup {<<"git", "merge", n>> : n \in Names}
    \cup {<<"git", "branch", "--list">>, <<"git", "branch", "-d">>, <<"git", "branch">>,
          <<"git", "checkout">>, <<"git", "status">>, <<"git">>, <<"ls">>, <<>>}

\* handle_command returned without calling a BranchManager method: it only
\* printed a message (invalid command, usage, or the caught IndexError).
Printed ==
  /\ last' = Outcome("handle_command", "", "None", FALSE)
  /\ UNCHANGED <<heap, root, current, store>>

\* _handle_branch(args): args[0] and args[1] raise IndexError when missing,
\* which handle_command catches and prints.
_handle_branch(args) ==
  IF Len(args) = 0 THEN Printed
  ELSE IF args[1] = "-d"
       THEN IF Len(args) < 2 THEN Printed ELSE delete_branch(args[2])
       ELSE IF args[1] = "--list" THEN list_branches_preorder
            ELSE create_branch(args[1])

\* _handle_checkout(args)
_handle_checkout(args) ==
  IF Len(args) # 1 THEN Printed ELSE checkout(args[1])

\* handle_command(command), parts being command.split().  GitSystem defines
\* no _handle_merge: evaluating self._handle_merge raises AttributeError,
\* which the except IndexError clause does not catch.
handle_command(parts) ==
  IF parts = <<>> \/ parts[1] # "git" THEN Printed
  ELSE IF Len(parts) < 2 THEN Printed
  ELSE LET cmd  == parts[2]
           args == SubSeq(parts, 3, Len(parts))
       IN  IF cmd = "branch" THEN _handle_branch(args)
           ELSE IF cmd = "checkout" THEN _handle_checkout(args)
           ELSE IF cmd = "merge"
                THEN /\ last' = Outcome("handle_command", "merge", "AttributeError", FALSE)
                     /\ UNCHANGED <<heap, root, current, store>>
                ELSE Printed

\* The prompt loop is still running: no exception has left handle_command
\* (the loop catches KeyboardInterrupt only).
Alive == last.result \notin {"ValueError", "AttributeError"}

NextCmd ==
  \/ BranchManager_init /\ UNCHANGED role_vars
  \/ Alive /\ \E parts \in Commands : handle_command(parts) /\ UNCHANGED role_vars

SpecCmd == Init /\ [][NextCmd]_vars

\* ------------------------------------------------- trees read from the store
\* The elements of a set of numbers in ascending order.
RECURSIVE Ascending(_)
Ascending(S) ==
  IF S = {} THEN <<>>
  ELSE LET m == CHOOSE x \in S : \A y \in S : x <= y
       IN  <<m>> \o Ascending(S \ {m})

\* The tree of n nodes in which node i > 1 is named nm[i] and is a child of
\* p[i], the children of a node in ascending order; the root is "main".
TreeOf(n, p, nm) ==
  [i \in 1..n |->
     [name     |-> IF i = 1 THEN "main" ELSE nm[i],
      parent   |-> IF i = 1 THEN 0 ELSE p[i],
      children |-> Ascending({j \in 2..n : p[j] = i}),
      commits  |-> <<>>]]

\* Every document of at most MaxTreeNodes branches without commits, as save()
\* writes them.
TreeDocs ==
  UNION {{_serialize(TreeOf(n, p, nm), 1) :
            p  \in {q \in [2..n -> 1..n] : \A i \in 2..n : q[i] < i},
            nm \in [2..n -> Names]} :
         n \in 1..MaxTreeNodes}

\* A process started on one of these documents in which no two siblings
\* share a name.
InitTrav ==
  /\ store \in {<<d>> : d \in TreeDocs}
  /\ heap = load(store).h
  /\ root = load(store).id
  /\ current = load(store).id
  /\ last = Outcome("__init__", "", "None", FALSE)
  /\ NoRoles
  /\ \A n \in DOMAIN heap : \A i, j \in 1..Len(heap[n].children) :
       i # j => heap[heap[n].children[i]].name # heap[heap[n].children[j]].name

NextTrav ==
  \/ \E name \in Names : checkout(name) /\ UNCHANGED role_vars
  \/ \E name \in Names : delete_branch(name) /\ UNCHANGED role_vars
  \/ \E name \in NewNames : create_branch(name) /\ UNCHANGED role_vars

SpecTrav == InitTrav /\ [][NextTrav]_vars

\* ------------------------------------------- file tables read from the store
\* The paths and contents of the file tables the diff is checked on.
Paths == {"f", "g"}
Contents == {"", "1", "2"}

\* Every file table over Paths and Contents (a path may be missing), its
\* items in the order f, g.
RECURSIVE TableFrom(_, _)
TableFrom(m, order) ==
  IF order = <<>> THEN <<>>
  ELSE (IF m[Head(order)] = NoneVal THEN <<>> ELSE << <<Head(order), m[Head(order)]>> >>)
         \o TableFrom(m, Tail(order))

Tables == {TableFrom(m, <<"f", "g">>) : m \in [Paths -> Contents \cup {NoneVal}]}

\* A process started on a document in which main and its child "a" hold one
\* commit each, with any two of these tables (no commit for the empty one).
InitDiff ==
  /\ \E S \in Tables, T \in Tables :
       store = <<_serialize(<<[BranchNode("main", 0) EXCEPT !.commits = SeedLog(T),
                                                           !.children = <<2>>],
                              [BranchNode("a", 1) EXCEPT !.commits = SeedLog(S)]>>, 1)>>
  /\ heap = load(store).h
  /\ root = load(store).id
  /\ current = load(store).id
  /\ last = Outcome("__init__", "", "None", FALSE)
  /\ NoRoles

NextDiff ==
  \/ \E name \in Names : merge(name) /\ UNCHANGED role_vars
  \/ \E name \in Names : checkout(name) /\ UNCHANGED role_vars

SpecDiff == InitDiff /\ [][NextDiff]_vars

\* ------------------------------------------------------------- RoleManager
\* The emails the role commands are called with, in ascending order of
\* Python's string comparison.
Emails == <<"ana@x", "bea@x", "cid@x">>
\* The roles they are called with, and the permission list.
RoleNames == {"admin", "dev"}
Permissions == <<"read">>

\* email < other, on Python strings.
Lt(email, other) ==
  \E i, j \in DOMAIN Emails : Emails[i] = email /\ Emails[j] = other /\ i < j

Max(a, b) == IF a >= b THEN a ELSE b

\* AVLNode(email, role, permissions)
AVLNode(email, role, permissions) ==
  [email |-> email, role |-> role, permissions |-> permissions,
   left |-> <<>>, right |-> <<>>, height |-> 1]

\* How a call on a node ends: it returns the node t, or it raises
\* AttributeError and t is the node it was called on, as the call left it.
Returns(t) == [t |-> t, exc |-> FALSE]
Raises(t) == [t |-> t, exc |-> TRUE]

\* _height(node)
_height(node) == IF node = <<>> THEN 0 ELSE node[1].height

\* _get_balance(node), node not None
_get_balance(node) == _height(node[1].left) - _height(node[1].right)

\* _left_rotate(z): y = z.right; T2 = y.left raises when y is None.
_left_rotate(z) ==
  LET y == z[1].right
  IN  IF y = <<>> THEN Raises(z)
      ELSE LET T2 == y[1].left
               z1 == [z[1] EXCEPT !.right = T2]
               z2 == [z1 EXCEPT !.height = 1 + Max(_height(z1.left), _height(z1.right))]
               y1 == [y[1] EXCEPT !.left = <<z2>>]
               y2 == [y1 EXCEPT !.height = 1 + Max(_height(y1.left), _height(y1.right))]
           IN  Returns(<<y2>>)

\* _right_rotate(z): y = z.left; T3 = y.right raises when y is None.
_right_rotate(z) ==
  LET y == z[1].left
  IN  IF y = <<>> THEN Raises(z)
      ELSE LET T3 == y[1].right
               z1 == [z[1] EXCEPT !.left = T3]
               z2 == [z1 EXCEPT !.height = 1 + Max(_height(z1.left), _height(z1.right))]
               y1 == [y[1] EXCEPT !.right = <<z2>>]
               y2 == [y1 EXCEPT !.height = 1 + Max(_height(y1.left), _height(y1.right))]
           IN  Returns(<<y2>>)

\* _insert(node, email, role, permissions): an email not below node.email
\* goes right, an equal one included.
RECURSIVE _insert(_, _, _, _)
_insert(node, email, role, permissions) ==
  IF node = <<>> THEN Returns(<<AVLNode(email, role, permissions)>>)
  ELSE LET goes_left == Lt(email, node[1].email)
           sub == IF goes_left THEN _insert(node[1].left, email, role, permissions)
                  ELSE _insert(node[1].right, email, role, permissions)
           n1  == IF goes_left THEN [node[1] EXCEPT !.left = sub.t]
                  ELSE [node[1] EXCEPT !.right = sub.t]
       IN  IF sub.exc THEN Raises(<<n1>>)
           ELSE LET n2 == [n1 EXCEPT !.height = 1 + Max(_height(n1.left), _height(n1.right))]
                    balance == _get_balance(<<n2>>)
                IN  IF balance > 1
                    THEN IF Lt(email, n2.left[1].email) THEN _right_rotate(<<n2>>)
                         ELSE LET l == _left_rotate(n2.left)
                              IN  IF l.exc THEN Raises(<<n2>>)
                                  ELSE _right_rotate(<<[n2 EXCEPT !.left = l.t]>>)
                    ELSE IF balance < -1
                    THEN IF Lt(n2.right[1].email, email) THEN _left_rotate(<<n2>>)
                         ELSE LET r == _right_rotate(n2.right)
                              IN  IF r.exc THEN Raises(<<n2>>)
                                  ELSE _left_rotate(<<[n2 EXCEPT !.right = r.t]>>)
                    ELSE Returns(<<n2>>)

\* _min_value_node(node), node not None
RECURSIVE _min_value_node(_)
_min_value_node(node) ==
  IF node[1].left # <<>> THEN _min_value_node(node[1].left) ELSE node[1]

\* The end of _delete_node, from the height update on: n is the node after
\* the recursive call sub on one of its subtrees.
_delete_node_balance(sub, n) ==
  IF sub.exc THEN Raises(<<n>>)
  ELSE LET n2 == [n EXCEPT !.height = 1 + Max(_height(n.left), _height(n.right))]
           balance == _get_balance(<<n2>>)
       IN  IF balance > 1 /\ _get_balance(n2.left) >= 0 THEN _right_rotate(<<n2>>)
           ELSE IF balance > 1 /\ _get_balance(n2.left) < 0
           THEN LET l == _left_rotate(n2.left)
                IN  IF l.exc THEN Raises(<<n2>>)
                    ELSE _right_rotate(<<[n2 EXCEPT !.left = l.t]>>)
           ELSE IF balance < -1 /\ _get_balance(n2.right) <= 0 THEN _left_rotate(<<n2>>)
           ELSE IF balance < -1 /\ _get_balance(n2.right) > 0
           THEN LET r == _right_rotate(n2.right)
                IN  IF r.exc THEN Raises(<<n2>>)
                    ELSE _left_rotate(<<[n2 EXCEPT !.right = r.t]>>)
           ELSE Returns(<<n2>>)

\* _delete_node(root, email); the node is called r here.
RECURSIVE _delete_node(_, _)
_delete_node(r, email) ==
  IF r = <<>> THEN Returns(r)
  ELSE IF Lt(email, r[1].email)
  THEN LET sub == _delete_node(r[1].left, email)
       IN  _delete_node_balance(sub, [r[1] EXCEPT !.left = sub.t])
  ELSE IF Lt(r[1].email, email)
  THEN LET sub == _delete_node(r[1].right, email)
       IN  _delete_node_balance(sub, [r[1] EXCEPT !.right = sub.t])
  ELSE IF r[1].left = <<>> THEN Returns(r[1].right)
  ELSE IF r[1].right = <<>> THEN Returns(r[1].left)
  ELSE LET temp == _min_value_node(r[1].right)
           r1   == [r[1] EXCEPT !.email = temp.email, !.role = temp.role,
                                !.permissions = temp.permissions]
           sub  == _delete_node(r1.right, temp.email)
       IN  _delete_node_balance(sub, [r1 EXCEPT !.right = sub.t])

\* RoleManager._serialize(node): the JSON value, null being <<>>.
RECURSIVE RoleManager_serialize(_)
RoleManager_serialize(node) ==
  IF node = <<>> THEN <<>>
  ELSE <<[email |-> node[1].email, role |-> node[1].role,
          permissions |-> node[1].permissions,
          left |-> RoleManager_serialize(node[1].left),
          right |-> RoleManager_serialize(node[1].right),
          height |-> node[1].height]>>

\* RoleManager._deserialize(data): the height is taken from the document.
RECURSIVE RoleManager_deserialize(_)
RoleManager_deserialize(data) ==
  IF data = <<>> THEN <<>>
  ELSE <<[AVLNode(data[1].email, data[1].role, data[1].permissions) EXCEPT
            !.left = RoleManager_deserialize(data[1].left),
            !.right = RoleManager_deserialize(data[1].right),
            !.height = data[1].height]>>

\* RoleManager.save(): roles.json holds the one document.
RoleManager_save(node) == <<RoleManager_serialize(node)>>

\* RoleManager.load(): no tree when the file is missing.
RoleManager_load(file) ==
  IF file = <<>> THEN <<>> ELSE RoleManager_deserialize(file[1])

\* The number of nodes of a role tree.
RECURSIVE NodeCount(_)
NodeCount(node) ==
  IF node = <<>> THEN 0 ELSE 1 + NodeCount(node[1].left) + NodeCount(node[1].right)

\* RoleManager(): a new process reads roles.json.
RoleManager_init ==
  /\ roles' = RoleManager_load(roles_file)
  /\ last' = Outcome("RoleManager", "", "None", FALSE)
  /\ UNCHANGED <<heap, root, current, store, roles_file>>

\* add_role(email, role, permissions): self.root is assigned and saved only
\* when _insert returns.
add_role(email, role, permissions) ==
  /\ NodeCount(roles) < MaxRoles
  /\ LET res == _insert(roles, email, role, permissions)
     IN  /\ roles' = res.t
         /\ roles_file' = IF res.exc THEN roles_file ELSE RoleManager_save(res.t)
         /\ last' = Outcome("add_role", email,
                            IF res.exc THEN "AttributeError" ELSE "None", ~res.exc)
  /\ UNCHANGED <<heap, root, current, store>>

\* remove_role(email)
remove_role(email) ==
  /\ LET res == _delete_node(roles, email)
     IN  /\ roles' = res.t
         /\ roles_file' = IF res.exc THEN roles_file ELSE RoleManager_save(res.t)
         /\ last' = Outcome("remove_role", email,
                            IF res.exc THEN "AttributeError" ELSE "None", ~res.exc)
  /\ UNCHANGED <<heap, root, current, store>>

\* A process started without roles.json and without branches.json.
InitAVL ==
  /\ store = <<>>
  /\ heap = load(store).h
  /\ root = load(store).id
  /\ current = load(store).id
  /\ last = Outcome("__init__", "", "None", FALSE)
  /\ NoRoles

NextAVL ==
  \/ RoleManager_init
  \/ \E i \in DOMAIN Emails, role \in RoleNames : add_role(Emails[i], role, Permissions)
  \/ \E i \in DOMAIN Emails : remove_role(Emails[i])

SpecAVL == InitAVL /\ [][NextAVL]_vars

\* ============================================================= properties
\* The nodes reachable from root.
Tree == Subtree(heap, root)
\* The latest file table of current.
CurrentFiles == LatestFiles(heap[current])
\* The step just taken was a call of op that returned normally.
Returned(op) == last'.op = op /\ last'.result = "None"
\* The step left the tree, the cursor and the persisted store as they were.
NothingChanged == UNCHANGED <<heap, root, current, store>> /\ ~last'.saved
\* Every diff merge(name) can compute in this state (one per iteration order).
Diffs(name) ==
  LET source == _find_branch_postorder(heap, root, name)
  IN  {_calculate_diff(heap[source], heap[current], order) :
         order \in Perms(Keys(LatestFiles(heap[source])) \cup Keys(CurrentFiles))}

\* C1: a merge whose source resolves lengthens the commit log of current by
\* exactly one commit and keeps its earlier entries.
C1_MergeAppendsOneCommit ==
  [][Returned("merge") =>
       LET before == heap[current].commits
           after  == heap'[current].commits
       IN  /\ Len(after) = Len(before) + 1
           /\ SubSeq(after, 1, Len(before)) = before]_vars

\* C2: after a successful merge the latest commit of current is the
\* "Merge commit" whose files are T overwritten by diff, no log holds the
\* marker commit, and no path of T is missing from the latest snapshot.
C2_LatestIsMergedSnapshot ==
  [][Returned("merge") =>
       LET log    == heap'[current].commits
           latest == log[Len(log)]
       IN  /\ latest.message = <<"Merge commit">>
           /\ \E diff \in Diffs(last'.arg) :
                DictEq(latest.files, Update(CurrentFiles, diff))
           /\ \A n \in DOMAIN heap' : \A i \in 1..Len(heap'[n].commits) :
                Len(heap'[n].commits[i].message) = 1
           /\ Keys(CurrentFiles) \subseteq Keys(latest.files)]_vars

\* C3: current is never None and always refers to a node reachable from root.
C3_CurrentReachable == current # 0 /\ current \in Tree

\* C4: create_branch(name) raises the duplicate error and changes nothing
\* exactly when a direct child of current has that name; otherwise it
\* succeeds and appends one child with an empty commit log as the last child
\* of current.
C4_CreateBranchContract ==
  [][last'.op = "create_branch" =>
       IF last'.arg \in ChildNames(heap, current)
       THEN last'.result = "ValueError" /\ NothingChanged
       ELSE LET before == heap[current].children
                after  == heap'[current].children
                child  == heap'[after[Len(after)]]
            IN  /\ last'.result = "None"
                /\ Len(after) = Len(before) + 1
                /\ SubSeq(after, 1, Len(before)) = before
                /\ child.name = last'.arg
                /\ child.commits = <<>>
                /\ child.children = <<>>]_vars

\* create_branch("a") has just been refused under a node that is itself a
\* second branch named "a", created earlier under another parent.
C4_Witness ==
  /\ last.op = "create_branch" /\ last.result = "ValueError"
  /\ \E m, n \in Tree : /\ m # n
                        /\ heap[m].name = last.arg /\ heap[n].name = last.arg
                        /\ heap[m].parent # heap[n].parent

\* C5: no node has two children with the same name.
C5_SiblingNamesDistinct ==
  \A n \in DOMAIN heap : \A i, j \in 1..Len(heap[n].children) :
    i # j => heap[heap[n].children[i]].name # heap[heap[n].children[j]].name

\* A node has two children and a third create_branch under it was refused.
C5_Witness ==
  /\ last.op = "create_branch" /\ last.result = "ValueError"
  /\ Len(heap[current].children) >= 2

\* The root is a node named "main" without parent that is no node's child.
RootIsMain ==
  /\ root \in DOMAIN heap
  /\ heap[root].name = "main"
  /\ heap[root].parent = 0
  /\ \A n \in DOMAIN heap : \A i \in 1..Len(heap[n].children) : heap[n].children[i] # root

\* C6: there is always exactly one root, named "main" and without parent,
\* and no delete_branch call removes or replaces it.
C6_RootNeverDeleted ==
  /\ []RootIsMain
  /\ [][last'.op = "delete_branch" => root' = root /\ heap'[root].name = "main"]_vars

\* delete_branch("main") was called on a tree that is the root alone.
C6_Witness ==
  /\ last.op = "delete_branch" /\ last.arg = "main"
  /\ Tree = {root}

\* C7: delete_branch(name) whose postorder-first match has a child, or that
\* matches nothing, returns normally and changes nothing; every node that a
\* delete_branch removes from the tree had no children.
C7_DeleteOnlyLeaves ==
  [][last'.op = "delete_branch" =>
       LET branch == _find_branch_postorder(heap, root, last'.arg)
       IN  /\ (branch = 0 \/ heap[branch].children # <<>>) =>
                 last'.result = "None" /\ NothingChanged
           /\ \A n \in Tree \ Subtree(heap', root') : heap[n].children = <<>>]_vars

\* delete_branch was called on a branch that has a child and returned.
C7_Witness ==
  /\ last.op = "delete_branch" /\ last.result = "None" /\ ~last.saved
  /\ LET branch == _find_branch_postorder(heap, root, last.arg)
     IN  branch # 0 /\ heap[branch].children # <<>>

\* C8: checkout(name) of a name no node of the tree carries returns False,
\* leaves current and the tree as they were and does not write the store.
C8_CheckoutMissing ==
  [][(last'.op = "checkout" /\ \A n \in Tree : heap[n].name # last'.arg) =>
       last'.result = "False" /\ NothingChanged]_vars

\* checkout failed for a name that only a detached node, the one still
\* checked out, carries.
C8_Witness ==
  /\ last.op = "checkout" /\ last.result = "False"
  /\ heap[current].name = last.arg
  /\ \A n \in Tree : heap[n].name # last.arg

\* C9: merge(source_name) of a name the postorder search does not find raises
\* the not-found error and changes no commit log, nor the tree, current or
\* the store.
C9_MergeMissingSource ==
  [][(last'.op = "merge" /\ _find_branch_postorder(heap, root, last'.arg) = 0) =>
       last'.result = "ValueError" /\ NothingChanged]_vars

\* merge raised for a missing source while current holds commits.
C9_Witness ==
  /\ last.op = "merge" /\ last.result = "ValueError"
  /\ _find_branch_postorder(heap, root, last.arg) = 0
  /\ heap[current].commits # <<>>

\* C10: when the source's latest file table equals current's, merge computes
\* an empty diff and the latest commit of current afterwards has the files
\* current had before.
C10_MergeOfEqualTables ==
  [][(Returned("merge") /\
      DictEq(LatestFiles(heap[_find_branch_postorder(heap, root, last'.arg)]),
             CurrentFiles)) =>
       /\ Diffs(last'.arg) = {<<>>}
       /\ DictEq(LatestFiles(heap'[current]), CurrentFiles)]_vars

\* The trees under node m of heap g and node n of heap h have the same names
\* and child order at every position and the same commits on every branch.
RECURSIVE SameTree(_, _, _, _)
SameTree(g, m, h, n) ==
  /\ g[m].name = h[n].name
  /\ Len(g[m].commits) = Len(h[n].commits)
  /\ \A i \in 1..Len(g[m].commits) :
       /\ g[m].commits[i].id = h[n].commits[i].id
       /\ g[m].commits[i].message = h[n].commits[i].message
       /\ g[m].commits[i].files = h[n].commits[i].files
  /\ Len(g[m].children) = Len(h[n].children)
  /\ \A i \in 1..Len(g[m].children) : SameTree(g, g[m].children[i], h, h[n].children[i])

\* Serialising the tree under root and deserialising the result gives the
\* same tree.
RoundTrip ==
  LET r == _deserialize(<<>>, _serialize(heap, root))
  IN  SameTree(heap, root, r.h, r.id)

\* C11: serialise-then-deserialise reproduces names, child order and every
\* branch's commits (id, message, files), and a load leaves current at the
\* root with the tree that was saved.
C11_RoundTrip ==
  /\ []RoundTrip
  /\ [][last'.op = "__init__" =>
          /\ current' = root'
          /\ store # <<>> => save(heap', root') = store]_vars

\* A process has just loaded a store in which a branch other than the root,
\* checked out when it was merged into, holds that merge's commits.
C11_Witness ==
  /\ last.op = "__init__" /\ current = root
  /\ \E n \in Tree \ {root} : \E i \in 1..Len(heap[n].commits) :
       /\ Len(heap[n].commits[i].message) = 4
       /\ heap[n].commits[i].message[4] = heap[n].name

\* The step just taken was a mutating call that succeeded: a create_branch or
\* merge that returned, a delete_branch that removed a branch, a checkout
\* that found its branch.
Succeeded ==
  \/ Returned("create_branch")
  \/ Returned("merge")
  \/ Returned("delete_branch") /\ heap' # heap
  \/ last'.op = "checkout" /\ last'.result = "True"

\* C12: after every mutating call that succeeds the store is the
\* serialisation of the tree under root as the call leaves it, so that the
\* branch just created or the branch just committed to is in the store; the
\* two queries never write the store.
C12_StoreHoldsWholeTree ==
  [][/\ Succeeded =>
          /\ store' = save(heap', root')
          /\ Returned("create_branch") => Len(heap') \in Subtree(heap', root')
          /\ Returned("merge") => current' \in Subtree(heap', root')
     /\ last'.op \in {"list_branches_preorder", "get_current_branch"} =>
          NothingChanged]_vars

\* Sequence s is a prefix of sequence t.
IsPrefix(s, t) == Len(s) <= Len(t) /\ SubSeq(t, 1, Len(s)) = s

\* C13: commit logs are append-only: over every single operation, the log of
\* every branch that exists before and after it keeps its old entries as a
\* prefix.
C13_LogsAppendOnly ==
  [][last'.op # "__init__" =>
       \A n \in DOMAIN heap :
         n \in DOMAIN heap' /\ IsPrefix(heap[n].commits, heap'[n].commits)]_vars

\* A merge has just extended a log that already held a commit.
C13_Witness ==
  /\ last.op = "merge" /\ last.result = "None"
  /\ Len(heap[current].commits) >= 3

\* C14: when current has no commits and every content of the source's latest
\* table S is a non-empty string, merge leaves current with new commits whose
\* files equal S, the latest one included.
C14_MergeIntoEmptyBranch ==
  [][LET S == LatestFiles(heap[_find_branch_postorder(heap, root, last'.arg)])
     IN  (/\ Returned("merge")
          /\ heap[current].commits = <<>>
          /\ \A k \in Keys(S) : Truthy(Get(S, k))) =>
           LET after == heap'[current].commits
           IN  /\ after # <<>>
               /\ \A i \in 1..Len(after) : DictEq(after[i].files, S)]_vars

\* A branch without commits has just merged another branch whose latest
\* table is not empty.
C14_Witness ==
  LET source == _find_branch_postorder(heap, root, last.arg)
  IN  /\ last.op = "merge" /\ last.result = "None"
      /\ source # 0 /\ source # current
      /\ LatestFiles(heap[source]) # <<>>
      /\ Len(heap[current].commits) = 2
      /\ DictEq(heap[current].commits[1].files, LatestFiles(heap[source]))

\* C20: create_branch, delete_branch and checkout leave every commit log as
\* it was, and merge changes the log of no branch but current.
C20_OnlyMergeCommitsOnCurrent ==
  [][/\ last'.op \in {"create_branch", "delete_branch", "checkout"} =>
          \A n \in DOMAIN heap : heap'[n].commits = heap[n].commits
     /\ last'.op = "merge" =>
          \A n \in DOMAIN heap \ {current} : heap'[n].commits = heap[n].commits]_vars

\* A merge from another branch that holds commits has just extended the log
\* of current.
C20_Witness ==
  LET source == _find_branch_postorder(heap, root, last.arg)
  IN  /\ last.op = "merge" /\ last.result = "None"
      /\ source # 0 /\ source # current
      /\ heap[source].commits # <<>>
      /\ Len(heap[current].commits) >= 3

\* C16: a commit id depends on the hashed file mapping alone: whatever order
\* the paths were iterated and inserted in, a merge that hashes the same
\* path/content pairs produces the same id.
C16_IdFromMappingAlone ==
  [][Returned("merge") =>
       LET log    == heap'[current].commits
           marker == log[Len(log)]
       IN  \A diff \in Diffs(last'.arg) :
             DictEq(diff, marker.files) => marker.id = Sha1_7(Str(diff))]_vars

\* The BranchManager call the command surface assigns to a command line.
Reaches(parts, op, arg) ==
  handle_command(parts) => last'.op = op /\ last'.arg = arg

\* C15: each command reaches its BranchManager method: branch <name> calls
\* create_branch, branch -d <name> delete_branch, branch --list the preorder
\* listing, checkout <name> checkout and merge <source> merge(source).
C15_CommandsReachMethods ==
  [][/\ \A n \in NewNames : Reaches(<<"git", "branch", n>>, "create_branch", n)
     /\ \A n \in Names : Reaches(<<"git", "branch", "-d", n>>, "delete_branch", n)
     /\ Reaches(<<"git", "branch", "--list">>, "list_branches_preorder", "")
     /\ \A n \in Names : Reaches(<<"git", "checkout", n>>, "checkout", n)
     /\ \A n \in Names : Reaches(<<"git", "merge", n>>, "merge", n)]_vars

\* The nodes under n in postorder: the children's subtrees left to right,
\* then n.
RECURSIVE Postorder(_, _), PostorderOfChildren(_, _, _)
Postorder(h, n) == PostorderOfChildren(h, h[n].children, 1) \o <<n>>
PostorderOfChildren(h, children, i) ==
  IF i > Len(children) THEN <<>>
  ELSE Postorder(h, children[i]) \o PostorderOfChildren(h, children, i + 1)

\* The nodes under n in preorder: n, then the children's subtrees left to
\* right.
RECURSIVE Preorder(_, _), PreorderOfChildren(_, _, _)
Preorder(h, n) == <<n>> \o PreorderOfChildren(h, h[n].children, 1)
PreorderOfChildren(h, children, i) ==
  IF i > Len(children) THEN <<>>
  ELSE Preorder(h, children[i]) \o PreorderOfChildren(h, children, i + 1)

\* The first node of the sequence that carries the name, 0 when none does.
FirstNamed(h, seq, name) ==
  IF \E i \in 1..Len(seq) : h[seq[i]].name = name
  THEN seq[CHOOSE i \in 1..Len(seq) :
             h[seq[i]].name = name /\ \A j \in 1..(i - 1) : h[seq[j]].name # name]
  ELSE 0

\* C17: the postorder-first-match search from root returns the first node in
\* postorder that carries the name and none when no node does; so it never
\* returns a node with a descendant of the same name, and of two matches in
\* different child subtrees of a node it returns one in the earlier subtree.
C17_PostorderFirstMatch ==
  \A name \in Names :
    LET found == _find_branch_postorder(heap, root, name)
    IN  /\ found = FirstNamed(heap, Postorder(heap, root), name)
        /\ found = 0 <=> \A n \in Tree : heap[n].name # name
        /\ found # 0 =>
             /\ \A d \in Subtree(heap, found) \ {found} : heap[d].name # name
             /\ \A n \in Tree : \A i, j \in 1..Len(heap[n].children) :
                  (/\ i < j
                   /\ \E d \in Subtree(heap, heap[n].children[i]) : heap[d].name = name)
                  => found \notin Subtree(heap, heap[n].children[j])

\* delete_branch(name) was called where the name is carried under two
\* different parents, in two child subtrees of the root, and the search
\* result is not the node a preorder search would give.
C17_Witness ==
  /\ last.op = "delete_branch"
  /\ Len(heap[root].children) >= 2
  /\ \E m \in Subtree(heap, heap[root].children[1]) :
     \E n \in Subtree(heap, heap[root].children[2]) :
       /\ heap[m].name = last.arg /\ heap[n].name = last.arg
       /\ _find_branch_postorder(heap, root, last.arg) = m
       /\ FirstNamed(heap, Preorder(heap, root), last.arg) # m

\* C18: checkout sets current to the node an ordinary left-to-right preorder
\* first-match search finds and succeeds exactly when that search finds one;
\* checkout("main") selects the root.
C18_CheckoutIsPreorder ==
  [][last'.op = "checkout" =>
       LET ref == FirstNamed(heap, Preorder(heap, root), last'.arg)
       IN  /\ last'.result = "True" <=> ref # 0
           /\ current' = IF ref # 0 THEN ref ELSE current
           /\ last'.arg = "main" => current' = root]_vars

\* checkout has just selected a node below an earlier child of the root
\* while the last child of the root carries the same name.
C18_Witness ==
  /\ last.op = "checkout" /\ last.result = "True"
  /\ Len(heap[root].children) >= 2
  /\ heap[heap[root].children[Len(heap[root].children)]].name = last.arg
  /\ current \in Subtree(heap, heap[root].children[1]) \ {heap[root].children[1]}
  /\ heap[current].name = last.arg

\* C19: the diff merge computes from S (the source's latest table) and T
\* (current's) holds exactly the paths on which S and T differ, a missing
\* path differing from any content; each is mapped to S[path] when that is a
\* non-empty string and to T[path] otherwise (None when T has no such path).
C19_DiffContents ==
  [][Returned("merge") =>
       LET S    == LatestFiles(heap[_find_branch_postorder(heap, root, last'.arg)])
           T    == CurrentFiles
           diff == LatestFiles(heap'[current])
       IN  /\ Keys(diff) = {p \in Keys(S) \cup Keys(T) : Get(S, p) # Get(T, p)}
           /\ \A p \in Keys(diff) :
                Get(diff, p) = IF Get(S, p) \notin {NoneVal, ""} THEN Get(S, p)
                               ELSE Get(T, p)]_vars

\* A merge has just taken current's content for a path whose content in the
\* source is the empty string, and left out a path equal on both sides.
C19_Witness ==
  LET source == _find_branch_postorder(heap, root, last.arg)
      log    == heap[current].commits
  IN  /\ last.op = "merge" /\ last.result = "None"
      /\ source # 0 /\ source # current /\ Len(log) = 3
      /\ Get(LatestFiles(heap[source]), "f") = ""
      /\ Get(log[1].files, "f") = "1"
      /\ Get(log[3].files, "f") = "1"
      /\ Get(LatestFiles(heap[source]), "g") = "2"
      /\ Get(log[1].files, "g") = "2"
      /\ "g" \notin Keys(log[3].files)

\* C21: in every reachable state, the state right after load() included,
\* every node in a child list of a node of the tree has that node as its
\* parent reference (so that delete_branch can detach a restored leaf through
\* it).
C21_ParentIsHolder ==
  \A n \in Tree : \A i \in 1..Len(heap[n].children) :
      heap[heap[n].children[i]].parent = n

\* C22: delete_branch raises no error for any name in any reachable state,
\* and delete_branch("main") on a root without children returns normally and
\* leaves the tree, current and the store unchanged.
C22_DeleteNeverRaises ==
  [][ last'.op = "delete_branch" =>
        /\ last'.result = "None"
        /\ (last'.arg = "main" /\ heap[root].children = <<>>) => NothingChanged
    ]_vars

\* The emails held by a role tree.
RECURSIVE EmailsOf(_)
EmailsOf(node) ==
  IF node = <<>> THEN {}
  ELSE {node[1].email} \cup EmailsOf(node[1].left) \cup EmailsOf(node[1].right)

\* A binary search tree on email: below a node, no email on the left is
\* greater and no email on the right is smaller (an email held twice may be
\* on either side, where the rotations move it).
RECURSIVE IsSearchTree(_)
IsSearchTree(node) ==
  node # <<>> =>
    /\ \A e \in EmailsOf(node[1].left) : ~Lt(node[1].email, e)
    /\ \A e \in EmailsOf(node[1].right) : ~Lt(e, node[1].email)
    /\ IsSearchTree(node[1].left)
    /\ IsSearchTree(node[1].right)

\* The height of a role tree, counted on the tree.
RECURSIVE HeightOf(_)
HeightOf(node) ==
  IF node = <<>> THEN 0 ELSE 1 + Max(HeightOf(node[1].left), HeightOf(node[1].right))

\* Every stored height is the height of its node, and the heights of the two
\* subtrees of every node differ by at most 1.
RECURSIVE IsBalanced(_)
IsBalanced(node) ==
  node # <<>> =>
    /\ node[1].height = HeightOf(node)
    /\ HeightOf(node[1].left) - HeightOf(node[1].right) \in {-1, 0, 1}
    /\ IsBalanced(node[1].left)
    /\ IsBalanced(node[1].right)

\* C23: after any sequence of add_role and remove_role calls, an email added
\* more than once included, every call has completed without error and the
\* role tree is a binary search tree on email with correct stored heights
\* and subtree heights that differ by at most 1.
C23_RoleTreeIsAVL ==
  /\ [](IsSearchTree(roles) /\ IsBalanced(roles))
  /\ [][last'.op \in {"add_role", "remove_role"} => last'.result = "None"]_vars

====
